---- MODULE Spec2Model ----
(***************************************************************************)
(* Model of src/src/sync.py: one synchronisation pass lists the remote     *)
(* bucket page by page, diffs the catalog against the local directory      *)
(* tree and downloads the missing files one after the other.               *)
(*                                                                         *)
(* Strings are sequences of one-character strings, so that slicing,        *)
(* prefix/suffix tests, splitting and ordering are computed as Python      *)
(* computes them.  The local filesystem is a function from the existing    *)
(* file paths to the set of chunks of the file that hold data.             *)
(***************************************************************************)
EXTENDS Integers, Sequences, FiniteSets, TLC

VARIABLES
    bucket, \* the origin: object keys of the bucket, in listing order
    fs,     \* files under DATA_DIR: existing path |-> chunks holding data
    dirs,   \* directories that exist
    proc    \* per process: position in sync_once and its local variables

vars == <<bucket, fs, dirs, proc>>

(***************************************************************************)
(* Bounds of the model.                                                    *)
(***************************************************************************)
MaxPages == 2      \* listing pages the origin serves per catalog fetch
MaxEntries == 2    \* <Contents> entries per listing page
NumChunks == 2     \* chunks the origin streams for one file

Procs == {1, 2}

(***************************************************************************)
(* Module constants of sync.py.                                            *)
(***************************************************************************)
RESOURCE_PREFIX == <<"r", "e", "s", "o", "u", "r", "c", "e", "s", "/", "n", "w", "p", "-", "v", "1", "-", "1", "h", "-", "2", "5", "0", "0", "m", "/", "f", "i", "l", "e", "l", "i", "s", "t", "i", "n", "g", "/">>
NC_EXT == <<".", "n", "c">>
DATA_DIR == <<"/", "d", "a", "t", "a">>
LOG_DIR == <<"/", "l", "o", "g", "s">>

None == "None"

(***************************************************************************)
(* Python string primitives.                                               *)
(***************************************************************************)
CodePoint ==
    ("-" :> 45) @@ ("." :> 46) @@ ("/" :> 47) @@ ("0" :> 48) @@ ("1" :> 49) @@
    ("2" :> 50) @@ ("3" :> 51) @@ ("4" :> 52) @@ ("5" :> 53) @@ ("6" :> 54) @@
    ("7" :> 55) @@ ("8" :> 56) @@ ("9" :> 57) @@ ("_" :> 95) @@ ("a" :> 97) @@
    ("c" :> 99) @@ ("d" :> 100) @@ ("e" :> 101) @@ ("f" :> 102) @@
    ("g" :> 103) @@ ("h" :> 104) @@ ("i" :> 105) @@ ("l" :> 108) @@
    ("m" :> 109) @@ ("n" :> 110) @@ ("o" :> 111) @@ ("p" :> 112) @@
    ("r" :> 114) @@ ("s" :> 115) @@ ("t" :> 116) @@ ("u" :> 117) @@
    ("v" :> 118) @@ ("w" :> 119) @@ ("x" :> 120)

Min(a, b) == IF a <= b THEN a ELSE b

\* s[a:b] for 0 <= a <= b
Slice(s, a, b) ==
    IF a >= Min(b, Len(s)) THEN <<>> ELSE SubSeq(s, a + 1, Min(b, Len(s)))

StartsWith(s, prefix) ==
    Len(s) >= Len(prefix) /\ SubSeq(s, 1, Len(prefix)) = prefix

EndsWith(s, suffix) ==
    Len(s) >= Len(suffix)
        /\ SubSeq(s, Len(s) - Len(suffix) + 1, Len(s)) = suffix

\* s.split("/")[-1]: the text after the last "/", all of s when it has none
LastSegment(s) ==
    LET slashes == {i \in 1..Len(s) : s[i] = "/"}
        last == IF slashes = {} THEN 0
                ELSE CHOOSE i \in slashes : \A j \in slashes : j <= i
    IN  Slice(s, last, Len(s))

\* a < b on Python strings: lexicographic by code point
StrLess(a, b) ==
    \E i \in 1..(Min(Len(a), Len(b)) + 1) :
        /\ \A j \in 1..(i - 1) : a[j] = b[j]
        /\ \/ i > Len(a) /\ i <= Len(b)
           \/ i <= Len(a) /\ i <= Len(b) /\ CodePoint[a[i]] < CodePoint[b[i]]

RECURSIVE InsertDesc(_, _)
InsertDesc(x, sorted) ==
    IF sorted = <<>> THEN <<x>>
    ELSE IF StrLess(Head(sorted), x) THEN <<x>> \o sorted
    ELSE <<Head(sorted)>> \o InsertDesc(x, Tail(sorted))

RECURSIVE SortReverse(_)
\* list.sort(reverse=True)
SortReverse(list) ==
    IF list = <<>> THEN <<>>
    ELSE InsertDesc(list[Len(list)], SortReverse(SubSeq(list, 1, Len(list) - 1)))

\* str.lower() on the values the truncation flag takes
Lower(s) ==
    CASE s = "True" -> "true"
      [] s = "TRUE" -> "true"
      [] s = "False" -> "false"
      [] OTHER -> s

Range(seq) == {seq[i] : i \in 1..Len(seq)}

(***************************************************************************)
(* The remote origin: object keys and listing documents.                   *)
(***************************************************************************)
FileA == <<"n", "w", "p", "_", "2", "0", "2", "4", "0", "1", "0", "1", "0", "0", ".", "n", "c">>
FileB == <<"n", "w", "p", "_", "2", "0", "2", "4", "0", "1", "0", "2", "0", "0", ".", "n", "c">>

FileNames == {FileA, FileB}

\* keys the bucket may list: the archive files directly under the prefix,
\* an object one level deeper, an object of another type and an object
\* of another resource
ObjectKeys ==
    {RESOURCE_PREFIX \o f : f \in FileNames}
        \cup {RESOURCE_PREFIX \o <<"o", "l", "d", "/">> \o FileA,
              RESOURCE_PREFIX \o <<"r", "e", "a", "d", "m", "e", ".", "t", "x", "t">>,
              <<"o", "t", "h", "e", "r", "/">> \o FileB}

RECURSIVE InsertAsc(_, _)
InsertAsc(x, sorted) ==
    IF sorted = <<>> THEN <<x>>
    ELSE IF StrLess(x, Head(sorted)) THEN <<x>> \o sorted
    ELSE <<Head(sorted)>> \o InsertAsc(x, Tail(sorted))

RECURSIVE KeyOrder(_)
\* the keys of S in the order the bucket lists them (ascending)
KeyOrder(S) ==
    IF S = {} THEN <<>>
    ELSE LET k == CHOOSE x \in S : TRUE IN InsertAsc(k, KeyOrder(S \ {k}))

Buckets == {KeyOrder(S) : S \in SUBSET ObjectKeys}

\* a <Contents> element: keyNode says whether it has a <Key> child, text is
\* the child's text (empty for an empty element)
KeyEntry(k) == [keyNode |-> TRUE, text |-> k]

KeylessEntries ==
    {[keyNode |-> TRUE, text |-> <<>>], [keyNode |-> FALSE, text |-> <<>>]}

TruncatedValues == {"absent", "true", "false", "True"}
TokenValues == {"absent", "", "tok1", "t/1"}

\* urllib.parse.quote(token, safe=''), on the tokens of TokenValues
Quote(token) == IF token = "t/1" THEN "t%2F1" ELSE token

\* the token the origin reads from the continuation-token parameter
Unquote(param) == IF param = "t%2F1" THEN "t/1" ELSE param

NoDoc ==
    [Contents |-> <<>>, IsTruncated |-> "absent",
     NextContinuationToken |-> "absent"]

SeqsUpTo(S, n) == UNION {[1..k -> S] : k \in 0..n}

\* the parsed XML documents the origin may answer with when pos keys of
\* the bucket have been listed: at most one element without a key, then
\* the next n keys, and any truncation flag and token
ListingDocs(keys, pos) ==
    {[Contents |-> junk \o [i \in 1..n |-> KeyEntry(keys[pos + i])],
      IsTruncated |-> flag,
      NextContinuationToken |-> token] :
        junk \in SeqsUpTo(KeylessEntries, 1),
        n \in 0..Min(MaxEntries, Len(keys) - pos),
        flag \in TruncatedValues,
        token \in TokenValues}

KeysOf(doc) ==
    {doc.Contents[i].text : i \in {j \in 1..Len(doc.Contents) :
        doc.Contents[j].keyNode /\ doc.Contents[j].text # <<>>}}

(***************************************************************************)
(* parse_listing                                                           *)
(***************************************************************************)
RECURSIVE ParseContentsNoPrefix(_)
\* every key with the extension is taken, whatever it starts with
ParseContentsNoPrefix(entries) ==
    IF entries = <<>> THEN <<>>
    ELSE LET entry == Head(entries)
             key == entry.text
             rest == ParseContentsNoPrefix(Tail(entries))
         IN  IF ~entry.keyNode \/ key = <<>> THEN rest
             ELSE IF ~EndsWith(key, NC_EXT) THEN rest
             ELSE <<LastSegment(key)>> \o rest

RECURSIVE ParseContents(_)
ParseContents(entries) ==
    IF entries = <<>> THEN <<>>
    ELSE LET entry == Head(entries)
             key == entry.text
             rest == ParseContents(Tail(entries))
         IN  IF ~entry.keyNode \/ key = <<>> THEN rest
             ELSE IF ~EndsWith(key, NC_EXT) THEN rest
             ELSE IF StartsWith(key, RESOURCE_PREFIX)
                  THEN <<LastSegment(key)>> \o rest
             ELSE rest

\* the token of the body is returned whatever the truncation flag says
parse_listing_ignores_flag(doc) ==
    [files |-> ParseContents(doc.Contents),
     next_token |-> IF doc.NextContinuationToken = "absent" THEN None
                    ELSE doc.NextContinuationToken]

parse_listing(doc) ==
    LET files == ParseContents(doc.Contents)
        is_truncated == IF doc.IsTruncated = "absent" THEN "false"
                        ELSE doc.IsTruncated
        next_token == IF doc.NextContinuationToken = "absent" THEN None
                      ELSE doc.NextContinuationToken
    IN  [files |-> files,
         next_token |-> IF Lower(is_truncated) # "true" THEN None
                        ELSE next_token]

\* the test "is not None": the empty string counts as a token
TruthyNotNone(s) == s # None

\* Python truthiness of a str | None
Truthy(s) == s # None /\ s # ""

(***************************************************************************)
(* Local layout: <DATA_DIR>/<year>_<month>/<filename>                      *)
(***************************************************************************)
\* the month taken from the wrong slice of the name
CandidateWrongMonth(name) ==
    LET year == Slice(name, 4, 8)
        month == Slice(name, 10, 12)
    IN  <<year \o <<"_">> \o month, name>>

\* A path below DATA_DIR is the pair (folder, name).
\* determine_missing_files: candidate = DATA_DIR / f"{year}_{month}" / filename
Candidate(name) ==
    LET year == Slice(name, 4, 8)
        month == Slice(name, 8, 10)
    IN  <<year \o <<"_">> \o month, name>>

\* download_file: destination = DATA_DIR / f"{year}_{month}" / filename
Destination(name) ==
    LET year == Slice(name, 4, 8)
        month == Slice(name, 8, 10)
    IN  <<year \o <<"_">> \o month, name>>

\* destination.parent
Parent(path) == path[1]

Exists(path, files) == path \in DOMAIN files

Unlink(path, files) == [q \in (DOMAIN files) \ {path} |-> files[q]]

\* open(path, "wb"): creates the file, or truncates the one that is there
OpenWb(path, files) == (path :> {}) @@ files

\* handle.write(chunk) of the k-th chunk through a handle on path
WriteChunk(path, k, files) == [files EXCEPT ![path] = @ \cup {k}]

\* the file holds the content the origin serves
Complete(path, files) == Exists(path, files) /\ files[path] = 1..NumChunks

(***************************************************************************)
(* determine_missing_files                                                 *)
(***************************************************************************)
RECURSIVE determine_missing_reversed(_, _)
\* the missing files, collected in the opposite order
determine_missing_reversed(remote_files, files) ==
    IF remote_files = <<>> THEN <<>>
    ELSE LET filename == Head(remote_files)
             candidate == Candidate(filename)
             rest == determine_missing_reversed(Tail(remote_files), files)
         IN  IF ~Exists(candidate, files) THEN rest \o <<filename>> ELSE rest

\* every remote file reported missing, whatever is on disk
determine_missing_all(remote_files, files) == remote_files

RECURSIVE determine_missing_files(_, _)
determine_missing_files(remote_files, files) ==
    IF remote_files = <<>> THEN <<>>
    ELSE LET filename == Head(remote_files)
             candidate == Candidate(filename)
             rest == determine_missing_files(Tail(remote_files), files)
         IN  IF ~Exists(candidate, files) THEN <<filename>> \o rest ELSE rest

(***************************************************************************)
(* Initial state: nothing on disk, no pass started.                        *)
(***************************************************************************)
NoPass ==
    [outcome |-> "none", remote_files |-> <<>>, missing_files |-> <<>>,
     downloaded |-> <<>>]

InitLocals(position) ==
    [pc |-> position,
     page |-> 1,               \* fetch_remote_files: page
     files |-> <<>>,           \* fetch_remote_files: files
     continuation |-> None,    \* fetch_remote_files: continuation
     pos |-> 0,                \* keys the origin has listed in this fetch
     remote_files |-> <<>>,    \* sync_once: remote_files
     missing_files |-> <<>>,   \* sync_once: missing_files
     downloaded |-> <<>>,      \* sync_once: downloaded
     idx |-> 0,                \* sync_once: idx
     chunks |-> 0,             \* download_file: chunks written (downloaded)
     handle |-> "closed",      \* download_file: handle; "orphan" when the
                               \* file it writes to was unlinked meanwhile
     ret |-> None,             \* value returned by sync_once, None before
     err |-> None,             \* error that left sync_once, None if none
     log |-> <<>>,             \* filenames download_file was called with
     existedBefore |-> FALSE,  \* destination existed when download_file began
     foundPartial |-> {},      \* files the diff found present but incomplete
     prev |-> NoPass,          \* summary of the process's previous pass
     observe |-> FALSE,        \* whether the listing is recorded below
     reqs |-> <<>>,            \* continuation-token of each listing request
     conts |-> <<>>,           \* token parse_listing returned for each page
     batches |-> <<>>,         \* filenames parse_listing returned, per page
     doc |-> NoDoc]            \* document of the last page

Init ==
    /\ bucket \in Buckets
    /\ fs = <<>>
    /\ dirs = {}
    /\ proc = [p \in Procs |-> InitLocals(IF p = 1 THEN "Idle" ELSE "Off")]

Set(p, locals) == proc' = [proc EXCEPT ![p] = locals]

filename(p) == proc[p].missing_files[proc[p].idx]

destination(p) == Destination(filename(p))

(***************************************************************************)
(* sync_once, up to the catalog                                            *)
(***************************************************************************)
\* sync_once is called: the root directories are made, the listing begins
SyncStart(p) ==
    /\ proc[p].pc \in {"Idle", "Done", "Failed"}
    /\ dirs' = dirs \cup {DATA_DIR, LOG_DIR}
    /\ Set(p, [InitLocals("Listing") EXCEPT
            !.observe = proc[p].observe,
            !.prev = [outcome |-> proc[p].pc,
                      remote_files |-> proc[p].remote_files,
                      missing_files |-> proc[p].missing_files,
                      downloaded |-> proc[p].downloaded]])
    /\ UNCHANGED <<bucket, fs>>

\* the continuation-token parameter of the next listing request
RequestTokenNever(p) == None

RequestToken(p) ==
    IF Truthy(proc[p].continuation) THEN Quote(proc[p].continuation) ELSE None

\* the record of the listing, kept when the process is observed
Observed(p, locals, token, cont, batch, doc) ==
    IF proc[p].observe
    THEN [locals EXCEPT !.reqs = Append(@, token),
                        !.conts = Append(@, cont),
                        !.batches = Append(@, batch),
                        !.doc = doc]
    ELSE locals

\* one iteration of the while loop of fetch_remote_files on a response
\* that parses; after the last page the list is sorted and returned
ListPage(p) ==
    /\ proc[p].pc = "Listing"
    /\ \E doc \in ListingDocs(bucket, proc[p].pos) :
        LET token == RequestToken(p)
            parsed == parse_listing(doc)
            batch == parsed.files
            cont == parsed.next_token
            all == proc[p].files \o batch
        IN  /\ proc[p].page >= MaxPages => ~Truthy(cont)
            /\ IF ~Truthy(cont)
               THEN Set(p, Observed(p, [proc[p] EXCEPT
                        !.pc = "CatalogFetched",
                        !.files = <<>>,
                        !.continuation = None,
                        !.page = 1,
                        !.pos = 0,
                        !.remote_files = SortReverse(all)],
                        token, cont, batch, doc))
               ELSE Set(p, Observed(p, [proc[p] EXCEPT
                        !.files = all,
                        !.continuation = cont,
                        !.pos = @ + Cardinality(KeysOf(doc)),
                        !.page = @ + 1],
                        token, cont, batch, doc))
    /\ UNCHANGED <<bucket, fs, dirs>>

\* the error of a listing page is noted, and the pages read so far are
\* returned as the catalog
ListFailPartial(p) ==
    /\ proc[p].pc = "Listing"
    /\ \E kind \in {"connection", "status", "parse"} :
        Set(p, [proc[p] EXCEPT !.pc = "CatalogFetched", !.err = kind,
                                  !.remote_files = SortReverse(proc[p].files)])
    /\ UNCHANGED <<bucket, fs, dirs>>

\* requests.get, raise_for_status or ET.fromstring raises on a listing page
ListFail(p) ==
    /\ proc[p].pc = "Listing"
    /\ \E kind \in {"connection", "status", "parse"} :
        Set(p, [proc[p] EXCEPT
            !.pc = "Failed",
            !.err = kind,
            !.reqs = IF proc[p].observe THEN Append(@, RequestToken(p)) ELSE @])
    /\ UNCHANGED <<bucket, fs, dirs>>

\* an empty catalog is treated as an error
EmptyCatalogRaises(p) ==
    /\ proc[p].pc = "CatalogFetched"
    /\ proc[p].remote_files = <<>>
    /\ Set(p, [proc[p] EXCEPT !.pc = "Failed", !.err = "empty"])
    /\ UNCHANGED <<bucket, fs, dirs>>

\* if not remote_files: return []
EmptyCatalog(p) ==
    /\ proc[p].pc = "CatalogFetched"
    /\ proc[p].remote_files = <<>>
    /\ Set(p, [proc[p] EXCEPT !.pc = "Done", !.ret = <<>>])
    /\ UNCHANGED <<bucket, fs, dirs>>

\* missing_files = determine_missing_files(remote_files)
DetermineMissing(p) ==
    /\ proc[p].pc = "CatalogFetched"
    /\ proc[p].remote_files # <<>>
    /\ Set(p, [proc[p] EXCEPT
            !.pc = "DiffComputed",
            !.missing_files = determine_missing_files(proc[p].remote_files, fs),
            !.foundPartial =
                {name \in Range(proc[p].remote_files) :
                    /\ Exists(Candidate(name), fs)
                    /\ ~Complete(Candidate(name), fs)}])
    /\ UNCHANGED <<bucket, fs, dirs>>

\* with nothing to download the pass goes back to listing the bucket
EmptyDiffRelists(p) ==
    /\ proc[p].pc = "DiffComputed"
    /\ proc[p].missing_files = <<>>
    /\ Set(p, [proc[p] EXCEPT !.pc = "Listing", !.remote_files = <<>>])
    /\ UNCHANGED <<bucket, fs, dirs>>

\* if not missing_files: return []
EmptyDiff(p) ==
    /\ proc[p].pc = "DiffComputed"
    /\ proc[p].missing_files = <<>>
    /\ Set(p, [proc[p] EXCEPT !.pc = "Done", !.ret = <<>>])
    /\ UNCHANGED <<bucket, fs, dirs>>

(***************************************************************************)
(* sync_once, the download loop, and download_file                         *)
(***************************************************************************)
\* the loop walks the diff from its end
LoopNextReversed(p) ==
    /\ \/ proc[p].pc = "DiffComputed" /\ proc[p].missing_files # <<>>
       \/ proc[p].pc = "Loop"
    /\ IF proc[p].idx < Len(proc[p].missing_files)
       THEN LET name == proc[p].missing_files[Len(proc[p].missing_files) - proc[p].idx]
            IN  Set(p, [proc[p] EXCEPT
                    !.pc = "DlMkdir",
                    !.idx = @ + 1,
                    !.chunks = 0,
                    !.log = Append(@, name),
                    !.existedBefore = Exists(Destination(name), fs)])
       ELSE Set(p, [proc[p] EXCEPT !.pc = "Done", !.ret = proc[p].downloaded])
    /\ UNCHANGED <<bucket, fs, dirs>>

\* the for loop takes the next filename and calls download_file, or is
\* exhausted and sync_once returns downloaded
LoopNext(p) ==
    /\ \/ proc[p].pc = "DiffComputed" /\ proc[p].missing_files # <<>>
       \/ proc[p].pc = "Loop"
    /\ IF proc[p].idx < Len(proc[p].missing_files)
       THEN LET name == proc[p].missing_files[proc[p].idx + 1]
            IN  Set(p, [proc[p] EXCEPT
                    !.pc = "DlMkdir",
                    !.idx = @ + 1,
                    !.chunks = 0,
                    !.log = Append(@, name),
                    !.existedBefore = Exists(Destination(name), fs)])
       ELSE Set(p, [proc[p] EXCEPT !.pc = "Done", !.ret = proc[p].downloaded])
    /\ UNCHANGED <<bucket, fs, dirs>>

\* destination.parent.mkdir(parents=True, exist_ok=True)
DlMkdir(p) ==
    /\ proc[p].pc = "DlMkdir"
    /\ dirs' = dirs \cup {DATA_DIR, Parent(destination(p))}
    /\ Set(p, [proc[p] EXCEPT !.pc = "DlGet"])
    /\ UNCHANGED <<bucket, fs>>

\* mkdir raises: it is outside the try block, the error leaves as it is
DlMkdirFail(p) ==
    /\ proc[p].pc = "DlMkdir"
    /\ Set(p, [proc[p] EXCEPT !.pc = "Failed", !.err = "mkdir"])
    /\ UNCHANGED <<bucket, fs, dirs>>

\* requests.get(...) answers and raise_for_status() passes
DlGet(p) ==
    /\ proc[p].pc = "DlGet"
    /\ Set(p, [proc[p] EXCEPT !.pc = "DlOpen"])
    /\ UNCHANGED <<bucket, fs, dirs>>

\* requests.get raises, or raise_for_status raises on a non-success status
DlGetFail(p) ==
    /\ proc[p].pc = "DlGet"
    /\ \E kind \in {"connection", "status"} :
        Set(p, [proc[p] EXCEPT !.pc = "DlExcept", !.err = kind])
    /\ UNCHANGED <<bucket, fs, dirs>>

\* destination.open("wb")
DlOpen(p) ==
    /\ proc[p].pc = "DlOpen"
    /\ fs' = OpenWb(destination(p), fs)
    /\ Set(p, [proc[p] EXCEPT !.pc = "DlStream", !.handle = "open"])
    /\ UNCHANGED <<bucket, dirs>>

DlOpenFail(p) ==
    /\ proc[p].pc = "DlOpen"
    /\ Set(p, [proc[p] EXCEPT !.pc = "DlExcept", !.err = "open"])
    /\ UNCHANGED <<bucket, fs, dirs>>

\* one iteration of the chunk loop: handle.write(chunk)
DlChunk(p) ==
    /\ proc[p].pc = "DlStream"
    /\ proc[p].chunks < NumChunks
    /\ fs' = IF proc[p].handle = "open"
             THEN WriteChunk(destination(p), proc[p].chunks + 1, fs)
             ELSE fs
    /\ Set(p, [proc[p] EXCEPT !.chunks = @ + 1])
    /\ UNCHANGED <<bucket, dirs>>

\* iter_content raises (read error) or handle.write raises (write error);
\* the with blocks close the handle and the response
DlChunkFail(p) ==
    /\ proc[p].pc = "DlStream"
    /\ \E kind \in {"read", "write"} :
        Set(p, [proc[p] EXCEPT !.pc = "DlExcept", !.err = kind,
                                  !.handle = "closed"])
    /\ UNCHANGED <<bucket, fs, dirs>>

\* the filename is appended although chunks are still to come
DlFinishEarly(p) ==
    /\ proc[p].pc = "DlStream"
    /\ Set(p, [proc[p] EXCEPT !.pc = "Loop",
                              !.handle = "closed",
                              !.downloaded = Append(@, filename(p))])
    /\ UNCHANGED <<bucket, fs, dirs>>

\* the stream is exhausted: download_file returns and sync_once appends
DlFinish(p) ==
    /\ proc[p].pc = "DlStream"
    /\ proc[p].chunks = NumChunks
    /\ Set(p, [proc[p] EXCEPT !.pc = "Loop",
                              !.handle = "closed",
                              !.downloaded = Append(@, filename(p))])
    /\ UNCHANGED <<bucket, fs, dirs>>

\* the handler re-raises without removing the partial file
DlExceptKeepsFile(p) ==
    /\ proc[p].pc = "DlExcept"
    /\ Set(p, [proc[p] EXCEPT !.pc = "Failed"])
    /\ UNCHANGED <<bucket, fs, dirs>>

\* the handler removes the partial file but swallows the error, so that
\* the loop goes on with the next filename
DlExceptSkips(p) ==
    /\ proc[p].pc = "DlExcept"
    /\ fs' = IF Exists(destination(p), fs) THEN Unlink(destination(p), fs)
             ELSE fs
    /\ Set(p, [proc[p] EXCEPT !.pc = "Loop", !.err = None])
    /\ UNCHANGED <<bucket, dirs>>

\* the locals of all processes after p has unlinked path and moved to
\* position: the handles other processes hold on the file are orphaned
AfterUnlink(p, path, position) ==
    [q \in Procs |->
        IF q = p THEN [proc[q] EXCEPT !.pc = position]
        ELSE IF proc[q].handle = "open" /\ destination(q) = path
             THEN [proc[q] EXCEPT !.handle = "orphan"]
        ELSE proc[q]]

\* except Exception: remove the destination if it exists, re-raise
DlExcept(p) ==
    /\ proc[p].pc = "DlExcept"
    /\ IF Exists(destination(p), fs)
       THEN /\ fs' = Unlink(destination(p), fs)
            /\ proc' = AfterUnlink(p, destination(p), "Failed")
       ELSE /\ fs' = fs
            /\ Set(p, [proc[p] EXCEPT !.pc = "Failed"])
    /\ UNCHANGED <<bucket, dirs>>

Next ==
    \E p \in Procs :
        \/ SyncStart(p)
        \/ ListPage(p)
        \/ ListFail(p)
        \/ EmptyCatalog(p)
        \/ DetermineMissing(p)
        \/ EmptyDiff(p)
        \/ LoopNext(p)
        \/ DlMkdir(p)
        \/ DlMkdirFail(p)
        \/ DlGet(p)
        \/ DlGetFail(p)
        \/ DlOpen(p)
        \/ DlOpenFail(p)
        \/ DlChunk(p)
        \/ DlChunkFail(p)
        \/ DlFinish(p)
        \/ DlExcept(p)

Spec == Init /\ [][Next]_vars

\* A step of a pass under way.  sync_once runs in one thread and each of
\* its blocking calls returns or raises (the requests have timeouts), so a
\* pass that can take a step does take it.
PassStep ==
    \E p \in Procs :
        \/ ListPage(p)
        \/ ListFail(p)
        \/ EmptyCatalog(p)
        \/ DetermineMissing(p)
        \/ EmptyDiff(p)
        \/ LoopNext(p)
        \/ DlMkdir(p)
        \/ DlMkdirFail(p)
        \/ DlGet(p)
        \/ DlGetFail(p)
        \/ DlOpen(p)
        \/ DlOpenFail(p)
        \/ DlChunk(p)
        \/ DlChunkFail(p)
        \/ DlFinish(p)
        \/ DlExcept(p)

\* the bucket holds every object
InitFull ==
    /\ bucket = KeyOrder(ObjectKeys)
    /\ fs = <<>>
    /\ dirs = {}
    /\ proc = [p \in Procs |-> InitLocals(IF p = 1 THEN "Idle" ELSE "Off")]

FairSpec == InitFull /\ [][Next]_vars /\ WF_vars(PassStep)

(***************************************************************************)
(* Two passes on the same data root, which nothing in the code excludes:   *)
(* both processes have fetched a catalog of the bucket and go on from      *)
(* there, each for one pass.                                               *)
(***************************************************************************)
Catalogs == {<<FileB, FileA>>, <<FileB>>, <<FileA>>}

InitConc ==
    /\ bucket = KeyOrder({RESOURCE_PREFIX \o f : f \in FileNames})
    /\ fs = <<>>
    /\ dirs = {DATA_DIR, LOG_DIR}
    /\ \E c1, c2 \in Catalogs :
        proc = [p \in Procs |->
            [InitLocals("CatalogFetched") EXCEPT
                !.remote_files = IF p = 1 THEN c1 ELSE c2]]

NextConc ==
    \E p \in Procs :
        \/ DetermineMissing(p)
        \/ EmptyDiff(p)
        \/ LoopNext(p)
        \/ DlMkdir(p)
        \/ DlMkdirFail(p)
        \/ DlGet(p)
        \/ DlGetFail(p)
        \/ DlOpen(p)
        \/ DlOpenFail(p)
        \/ DlChunk(p)
        \/ DlChunkFail(p)
        \/ DlFinish(p)
        \/ DlExcept(p)

SpecConc == InitConc /\ [][NextConc]_vars

(***************************************************************************)
(* The catalog fetch on its own, with the listing recorded.                *)
(***************************************************************************)
InitFetch ==
    /\ bucket \in Buckets
    /\ fs = <<>>
    /\ dirs = {}
    /\ proc = [p \in Procs |->
            IF p = 1 THEN [InitLocals("Idle") EXCEPT !.observe = TRUE]
            ELSE InitLocals("Off")]

NextFetch ==
    \E p \in Procs :
        \/ SyncStart(p)
        \/ ListPage(p)
        \/ ListFail(p)

SpecFetch == InitFetch /\ [][NextFetch]_vars

(***************************************************************************)
(* Properties.  Spec runs one process, the documented way of operation:    *)
(* process 2 stays "Off".                                                  *)
(***************************************************************************)
TransferPcs == {"DlMkdir", "DlGet", "DlOpen", "DlStream", "DlExcept"}

\* the pass of p ended with an error raised by download_file
TransferFailed(p) == proc[p].pc = "Failed" /\ proc[p].idx > 0

\* fetch_remote_files has returned in the current pass of p
CatalogKnown(p) ==
    \/ proc[p].pc \in {"CatalogFetched", "DiffComputed", "Loop", "Done"}
    \/ proc[p].pc \in TransferPcs
    \/ TransferFailed(p)

IsPrefix(s, t) == Len(s) <= Len(t) /\ s = SubSeq(t, 1, Len(s))

StrictlyDescending(list) ==
    \A i \in 1..(Len(list) - 1) : StrLess(list[i + 1], list[i])

Descending(list) ==
    \A i \in 1..(Len(list) - 1) : ~StrLess(list[i], list[i + 1])

\* C1: when download_file fails for a destination that did not exist when
\* it was called, no file exists at the destination once the error has
\* left download_file, however many chunks had been written.
C1_NoFileAfterFailedTransfer ==
    \A p \in Procs :
        (TransferFailed(p) /\ ~proc[p].existedBefore)
            => ~Exists(destination(p), fs)

C1_Witness ==
    \E p \in Procs :
        /\ TransferFailed(p)
        /\ ~proc[p].existedBefore
        /\ proc[p].err = "write"
        /\ proc[p].chunks >= 1

\* C2: when a pass is aborted by a failed transfer, every file whose
\* transfer completed earlier in the pass is still complete on disk.
C2_EarlierFilesKept ==
    \A p \in Procs :
        TransferFailed(p) =>
            \A i \in 1..Len(proc[p].downloaded) :
                Complete(Destination(proc[p].downloaded[i]), fs)

\* C3: the first failed transfer ends the pass: the failed filename is the
\* last one download_file was called with and was tried once, no result
\* is returned, and the error leaves sync_once as it was raised.
C3_FirstFailureAborts ==
    /\ [](\A p \in Procs :
            (proc[p].pc = "DlExcept" \/ TransferFailed(p)) =>
                /\ proc[p].ret = None
                /\ proc[p].err # None
                /\ proc[p].log = SubSeq(proc[p].missing_files, 1, proc[p].idx)
                /\ Len(proc[p].log) = Len(proc[p].downloaded) + 1)
    /\ [][\A p \in Procs :
            proc[p].pc = "DlExcept" =>
                /\ proc'[p].pc \in {"DlExcept", "Failed"}
                /\ proc'[p].err = proc[p].err
                /\ proc'[p].log = proc[p].log
                /\ proc'[p].ret = None]_vars

C3_Witness ==
    \E p \in Procs :
        /\ TransferFailed(p)
        /\ proc[p].idx < Len(proc[p].missing_files)

\* C4: a pass without failure that follows a pass aborted by a transfer,
\* on the same catalog, downloads exactly the files of the diff that the
\* aborted pass had not completed, none of the completed ones, and ends
\* with every catalog file complete on disk.
C4_ResumeAfterAbort ==
    \A p \in Procs :
        (/\ proc[p].pc = "Done"
         /\ proc[p].prev.outcome = "Failed"
         /\ proc[p].prev.missing_files # <<>>
         /\ proc[p].prev.remote_files = proc[p].remote_files) =>
            /\ proc[p].log = SubSeq(proc[p].prev.missing_files,
                                    Len(proc[p].prev.downloaded) + 1,
                                    Len(proc[p].prev.missing_files))
            /\ Range(proc[p].log) \cap Range(proc[p].prev.downloaded) = {}
            /\ \A i \in 1..Len(proc[p].remote_files) :
                Complete(Destination(proc[p].remote_files[i]), fs)

\* C5: a pass that follows a pass that returned, on the same catalog,
\* never calls download_file and returns the empty list.
C5_SecondPassDownloadsNothing ==
    \A p \in Procs :
        (/\ CatalogKnown(p)
         /\ proc[p].prev.outcome = "Done"
         /\ proc[p].prev.remote_files = proc[p].remote_files) =>
            /\ proc[p].log = <<>>
            /\ proc[p].pc \notin TransferPcs
            /\ proc[p].pc # "Failed"
            /\ proc[p].pc = "Done" => proc[p].ret = <<>>

C5_Witness ==
    \E p \in Procs :
        /\ proc[p].pc = "Done"
        /\ proc[p].prev.outcome = "Done"
        /\ proc[p].prev.downloaded # <<>>
        /\ proc[p].prev.remote_files = proc[p].remote_files

\* C6: when sync_once has returned for a catalog, determine_missing_files
\* of that catalog is empty: every file of the catalog exists at
\* <DATA_DIR>/<year>_<month>/<filename>.
C6_NothingMissingAfterPass ==
    \A p \in Procs :
        proc[p].pc = "Done" =>
            /\ determine_missing_files(proc[p].remote_files, fs) = <<>>
            /\ \A i \in 1..Len(proc[p].remote_files) :
                LET name == proc[p].remote_files[i]
                IN  Exists(<<Slice(name, 4, 8) \o <<"_">> \o Slice(name, 8, 10),
                             name>>, fs)

C6_Witness ==
    \E p \in Procs :
        /\ proc[p].pc = "Done"
        /\ Len(proc[p].downloaded) >= 2

C8_ResultIsCompletedPrefix ==
    /\ [](\A p \in Procs :
            /\ IsPrefix(proc[p].downloaded, proc[p].missing_files)
            /\ proc[p].pc = "Done" => proc[p].ret = proc[p].missing_files)
    /\ [][\A p \in Procs :
            (proc'[p].downloaded # proc[p].downloaded /\ proc'[p].pc # "Listing") =>
                /\ proc'[p].downloaded = Append(proc[p].downloaded, filename(p))
                /\ Complete(destination(p), fs)
                /\ fs' = fs]_vars

C8_Witness ==
    \E p \in Procs :
        /\ proc[p].pc = "Done"
        /\ Len(proc[p].ret) >= 2

\* C9: the list fetch_remote_files returns is strictly descending, hence
\* without duplicates (the origin lists every key of the bucket once).
C9_CatalogStrictlyDescending ==
    \A p \in Procs :
        CatalogKnown(p) => StrictlyDescending(proc[p].remote_files)

\* C10: download_file is called for a filename only while no file exists
\* at its destination.
C10_NoRefetch ==
    \A p \in Procs :
        proc[p].pc = "DlMkdir" => ~Exists(destination(p), fs)

\* C11: an error on a listing page, the first or a later one, ends the
\* pass: no catalog is returned, no diff is computed, download_file is not
\* called, nothing is returned, and no step of the listing touches a file.
C11_ListingFailureIsFatal ==
    /\ [](\A p \in Procs :
            (proc[p].err # None /\ proc[p].idx = 0) =>
                /\ proc[p].pc = "Failed"
                /\ proc[p].remote_files = <<>>
                /\ proc[p].missing_files = <<>>
                /\ proc[p].log = <<>>
                /\ proc[p].ret = None)
    /\ [][\A p \in Procs :
            (proc[p].pc = "Listing" /\ proc'[p] # proc[p]) =>
                /\ fs' = fs
                /\ proc'[p].pc \in {"Listing", "CatalogFetched", "Failed"}
                /\ proc'[p].pc = "Failed" => proc'[p].err # None]_vars

C11_Witness ==
    \E p \in Procs :
        /\ proc[p].pc = "Failed"
        /\ proc[p].idx = 0
        /\ proc[p].err = "status"
        /\ proc[p].page = 2
        /\ proc[p].files # <<>>

\* C12: on an empty catalog sync_once returns [] without computing the
\* diff; on a non-empty catalog with an empty diff it returns [] without
\* calling download_file; neither raises.
C12_EmptyResultsShortCircuit ==
    \A p \in Procs :
        /\ (CatalogKnown(p) /\ proc[p].remote_files = <<>>) =>
            /\ proc[p].pc \in {"CatalogFetched", "Done"}
            /\ proc[p].err = None
            /\ proc[p].log = <<>>
            /\ proc[p].pc = "Done" => proc[p].ret = <<>>
        /\ (/\ CatalogKnown(p)
            /\ proc[p].pc # "CatalogFetched"
            /\ proc[p].remote_files # <<>>
            /\ proc[p].missing_files = <<>>) =>
            /\ proc[p].pc \in {"DiffComputed", "Done"}
            /\ proc[p].err = None
            /\ proc[p].log = <<>>
            /\ proc[p].pc = "Done" => proc[p].ret = <<>>
        \* a pass fails only in the listing or in a transfer
        /\ proc[p].pc = "Failed" =>
            \/ TransferFailed(p)
            \/ proc[p].idx = 0 /\ proc[p].err \in {"connection", "status", "parse"}

\* a pass that found nothing to download, then a pass on an empty catalog
C12_Witness ==
    \E p \in Procs :
        /\ proc[p].pc = "Done"
        /\ proc[p].remote_files = <<>>
        /\ proc[p].ret = <<>>
        /\ proc[p].prev.outcome = "Done"
        /\ proc[p].prev.remote_files # <<>>
        /\ proc[p].prev.missing_files = <<>>

(***************************************************************************)
(* Properties of the catalog fetch, checked under SpecFetch.               *)
(***************************************************************************)
Count(x, list) == Cardinality({i \in 1..Len(list) : list[i] = x})

RECURSIVE Flatten(_)
Flatten(lists) ==
    IF lists = <<>> THEN <<>> ELSE Head(lists) \o Flatten(Tail(lists))

Last(list) == list[Len(list)]

\* C13: the first listing request carries no token, every later request
\* carries the token of the page before it, the loop goes on while a page
\* returns a token and stops at the first page that returns none, and the
\* catalog holds the filenames of every page.
C13_PaginationProtocol ==
    \A p \in Procs :
        proc[p].observe =>
            /\ Len(proc[p].reqs) >= 1 => proc[p].reqs[1] = None
            /\ \A i \in 2..Len(proc[p].reqs) :
                /\ proc[p].conts[i - 1] \notin {None, ""}
                /\ proc[p].reqs[i] # None
                /\ Unquote(proc[p].reqs[i]) = proc[p].conts[i - 1]
            /\ proc[p].pc = "Listing" =>
                /\ Len(proc[p].reqs) = Len(proc[p].conts)
                /\ \A i \in 1..Len(proc[p].conts) :
                    proc[p].conts[i] \notin {None, ""}
            /\ proc[p].pc = "CatalogFetched" =>
                /\ Len(proc[p].reqs) = Len(proc[p].conts)
                /\ Last(proc[p].conts) \in {None, ""}
                /\ \A name \in FileNames :
                    Count(name, proc[p].remote_files)
                        = Count(name, Flatten(proc[p].batches))
                /\ Range(proc[p].remote_files) \subseteq FileNames

C13_Witness ==
    \E p \in Procs :
        /\ proc[p].observe
        /\ proc[p].pc = "CatalogFetched"
        /\ Len(proc[p].reqs) = 2
        /\ proc[p].reqs[2] = "t%2F1"
        /\ proc[p].batches[1] # <<>>
        /\ proc[p].batches[2] # <<>>

HasKeyText(entry) == entry.keyNode /\ Len(entry.text) > 0

UnderPrefix(key) ==
    /\ Len(key) >= Len(RESOURCE_PREFIX)
    /\ \A i \in 1..Len(RESOURCE_PREFIX) : key[i] = RESOURCE_PREFIX[i]

HasExtension(key) ==
    /\ Len(key) >= Len(NC_EXT)
    /\ \A i \in 1..Len(NC_EXT) : key[Len(key) - Len(NC_EXT) + i] = NC_EXT[i]

\* the text after the last "/" of the key
BaseName(key) ==
    CHOOSE name \in {SubSeq(key, i, Len(key)) : i \in 1..(Len(key) + 1)} :
        /\ \A i \in 1..Len(name) : name[i] # "/"
        /\ Len(name) = Len(key) \/ key[Len(key) - Len(name)] = "/"

AcceptedEntry(entry) ==
    HasKeyText(entry) /\ UnderPrefix(entry.text) /\ HasExtension(entry.text)

ExpectedNames(doc) ==
    LET accepted == SelectSeq(doc.Contents, AcceptedEntry)
    IN  [i \in 1..Len(accepted) |-> BaseName(accepted[i].text)]

\* C15: the filenames parse_listing returns for a page are, in document
\* order, the base names of the entries whose key starts with the prefix
\* and ends with the extension; entries without a key or with an empty
\* key are left out.
C15_ParsedNames ==
    \A p \in Procs :
        (proc[p].observe /\ Len(proc[p].batches) > 0) =>
            Last(proc[p].batches) = ExpectedNames(proc[p].doc)

C15_Witness ==
    \E p \in Procs :
        /\ proc[p].observe
        /\ Len(proc[p].batches) > 0
        /\ Len(proc[p].doc.Contents) = 3
        /\ ~proc[p].doc.Contents[1].keyNode
        /\ Len(Last(proc[p].batches)) = 1

\* C16: a page whose truncation flag is "false" or absent yields no token,
\* whatever token the body holds; a page whose flag is "true" yields the
\* NextContinuationToken of the body.
C16_TokenOnlyWhenTruncated ==
    \A p \in Procs :
        (proc[p].observe /\ Len(proc[p].conts) > 0) =>
            /\ proc[p].doc.IsTruncated \in {"false", "absent"} =>
                Last(proc[p].conts) = None
            /\ proc[p].doc.IsTruncated = "true" =>
                Last(proc[p].conts) =
                    IF proc[p].doc.NextContinuationToken = "absent" THEN None
                    ELSE proc[p].doc.NextContinuationToken

C16_Witness ==
    \E p \in Procs :
        /\ proc[p].observe
        /\ Len(proc[p].conts) > 0
        /\ proc[p].doc.IsTruncated = "false"
        /\ proc[p].doc.NextContinuationToken = "tok1"
        /\ Last(proc[p].conts) = None

TruncatedWithoutToken(doc) ==
    doc.IsTruncated = "true" /\ doc.NextContinuationToken \in {"absent", ""}

\* C17: a page that says it is truncated but has no token, or an empty
\* one, ends the pagination: no further request is made, no error is
\* raised, and the sorted filenames of all pages up to it are returned.
C17_TruncatedWithoutTokenEnds ==
    \A p \in Procs :
        (/\ proc[p].observe
         /\ Len(proc[p].conts) > 0
         /\ TruncatedWithoutToken(proc[p].doc)) =>
            /\ proc[p].pc = "CatalogFetched"
            /\ Len(proc[p].reqs) = Len(proc[p].conts)
            /\ proc[p].err = None
            /\ Descending(proc[p].remote_files)
            /\ \A name \in FileNames :
                Count(name, proc[p].remote_files)
                    = Count(name, Flatten(proc[p].batches))

C17_Witness ==
    \E p \in Procs :
        /\ proc[p].observe
        /\ Len(proc[p].conts) = 2
        /\ proc[p].doc.IsTruncated = "true"
        /\ proc[p].doc.NextContinuationToken = ""
        /\ Len(proc[p].remote_files) >= 2

AbsentOnDisk(name) ==
    <<Slice(name, 4, 8) \o <<"_">> \o Slice(name, 8, 10), name>> \notin DOMAIN fs

\* C14: determine_missing_files returns, in the order of its input, the
\* filenames whose path <DATA_DIR>/<name[4:8]>_<name[8:10]>/<name> does not
\* exist, and leaves the filesystem as it was.
C14_ExactlyTheAbsentFiles ==
    /\ [](\A p \in Procs :
            proc[p].pc = "DiffComputed" =>
                proc[p].missing_files
                    = SelectSeq(proc[p].remote_files, AbsentOnDisk))
    /\ [][\A p \in Procs :
            (proc[p].pc = "CatalogFetched" /\ proc'[p].pc = "DiffComputed") =>
                fs' = fs /\ dirs' = dirs]_vars

C14_Witness ==
    \E p \in Procs :
        /\ proc[p].pc = "DiffComputed"
        /\ Len(proc[p].missing_files) >= 1
        /\ Len(proc[p].missing_files) < Len(proc[p].remote_files)

\* the states of the orchestrator
Phase(position) ==
    CASE position \in {"Off", "Idle", "Listing"} -> "Idle"
      [] position = "CatalogFetched" -> "CatalogFetched"
      [] position = "DiffComputed" -> "DiffComputed"
      [] position \in TransferPcs \cup {"Loop"} -> "Downloading"
      [] position = "Done" -> "Done"
      [] position = "Failed" -> "Failed"

Rank(phase) ==
    CASE phase = "Idle" -> 0
      [] phase = "CatalogFetched" -> 1
      [] phase = "DiffComputed" -> 2
      [] phase = "Downloading" -> 3
      [] phase \in {"Done", "Failed"} -> 4

\* the step is the call of sync_once that begins a pass
BeginsPass(p) ==
    proc[p].pc \in {"Idle", "Done", "Failed"} /\ proc'[p].pc = "Listing"

\* C18: within a pass the orchestrator only moves forward through Idle,
\* CatalogFetched, DiffComputed, Downloading and Done or the error exit,
\* never back and never out of Done or the error exit; and every pass
\* that has begun reaches Done or the error exit.
C18_ForwardAndTerminating ==
    /\ [][\A p \in Procs :
            (Phase(proc'[p].pc) # Phase(proc[p].pc) /\ ~BeginsPass(p)) =>
                Rank(Phase(proc'[p].pc)) > Rank(Phase(proc[p].pc))]_vars
    /\ \A p \in Procs :
        (proc[p].pc = "Listing") ~> (proc[p].pc \in {"Done", "Failed"})

C18_Witness ==
    \E p \in Procs :
        /\ proc[p].pc = "Done"
        /\ Len(proc[p].log) >= 1
        /\ proc[p].prev.outcome = "Failed"

\* C20: when download_file fails before it has opened the destination
\* (the request raises, or the status is not a success), the files under
\* the data root are left as they were: a file that was at the destination
\* is neither removed nor changed.
C20_EarlyFailureLeavesFiles ==
    [][\A p \in Procs :
        (/\ proc[p].pc \in {"DlGet", "DlExcept"}
         /\ proc[p].handle = "closed"
         /\ proc[p].chunks = 0
         /\ proc'[p].err \in {"connection", "status"}
         /\ proc'[p] # proc[p]) =>
            fs' = fs]_vars

(***************************************************************************)
(* Properties of two interleaved passes, checked under SpecConc.           *)
(***************************************************************************)
DiffKnown(p) ==
    proc[p].pc \in {"DiffComputed", "Loop", "Done"} \cup TransferPcs
        \/ TransferFailed(p)

\* the files of the catalog that the diff of p found present
Skipped(p) ==
    IF DiffKnown(p)
    THEN Range(proc[p].remote_files) \ Range(proc[p].missing_files)
    ELSE {}

\* C19 as claimed: of two interleaved passes, every file a pass finds
\* present and skips is completely written, never the partial file of the
\* other pass's transfer, and is present when both passes have ended.
C19_SkippedFilesAreWhole ==
    \A p \in Procs :
        /\ proc[p].foundPartial = {}
        /\ (\A q \in Procs : proc[q].pc \in {"Done", "Failed"}) =>
            \A name \in Skipped(p) : Exists(Destination(name), fs)

\* C19 as amended: a file a pass finds present and skips is completely
\* written, or it is the file that the transfer of the other pass is
\* writing (or about to remove) at that moment.
C19_SkippedIsWholeOrInFlight ==
    [][\A p \in Procs :
        (proc[p].pc = "CatalogFetched" /\ proc'[p].pc = "DiffComputed") =>
            \A name \in Range(proc[p].remote_files) \ Range(proc'[p].missing_files) :
                \/ Complete(Destination(name), fs)
                \/ \E q \in Procs \ {p} :
                    /\ proc[q].pc \in {"DlStream", "DlExcept"}
                    /\ destination(q) = Destination(name)]_vars

C19_Witness ==
    \E p \in Procs :
        \E q \in Procs \ {p} :
            /\ proc[p].pc = "DiffComputed"
            /\ proc[p].foundPartial # {}
            /\ proc[q].pc = "DlStream"
            /\ proc[q].chunks = 1
            /\ filename(q) \in proc[p].foundPartial

====
